---- MODULE Spec2Model ----
(***************************************************************************)
(* A model of add_category.py: the script that loads                      *)
(* data/therapy_advice.json, gives every record a `category` derived from *)
(* the first element of its `contexts`, and writes the document back to   *)
(* the same path.                                                          *)
(***************************************************************************)
EXTENDS Integers, Sequences, FiniteSets, TLC

VARIABLES
    file,     \* data/therapy_advice.json: [exists, writable, text]
    pc,       \* position of the process in add_category_field
    data,     \* the parsed document held in memory (line 21), mutated in place
    idx,      \* position of the `for item in data` iterator (line 24)
    err,      \* the uncaught exception that ended the process, or "none"
    stdout,   \* the lines printed by the process
    rfd,      \* the read handle of line 20: "none", "open", "closed"
    wfd,      \* the write handle of line 35: "none", "open", "closed"
    trace,    \* the steps the process has taken, in order
    run,      \* how many times the script has been started
    orig,     \* the file as it was when the current process started
    last      \* how the previous process ended: "none", "done", "failed"

vars == <<file, pc, data, idx, err, stdout, rfd, wfd, trace, run, orig, last>>

(***************************************************************************)
(* Bounds of the model.                                                    *)
(***************************************************************************)
MaxRecords == 2   \* longest array of the enumerated multi-record documents
MaxCtx == 2       \* longest `contexts` sequence of the enumerated records
MaxRuns == 2      \* how many times in succession the script is started

(***************************************************************************)
(* JSON values as Python holds them.  t is the type; s is the payload of  *)
(* a scalar; a is the items of a list, or the key-value pairs of a dict   *)
(* in insertion order.                                                     *)
(***************************************************************************)
Str(s) == [t |-> "string", s |-> s, a |-> <<>>]
Num(s) == [t |-> "number", s |-> s, a |-> <<>>]
Bool(s) == [t |-> "bool", s |-> s, a |-> <<>>]
Null == [t |-> "null", s |-> "null", a |-> <<>>]
Arr(items) == [t |-> "array", s |-> "", a |-> items]
Obj(pairs) == [t |-> "object", s |-> "", a |-> pairs]
Pair(k, v) == [k |-> k, v |-> v]

Keys(d) == {d.a[i].k : i \in 1..Len(d.a)}

\* d[k] of a dict that has the key k
GetItem(d, k) == d.a[CHOOSE i \in 1..Len(d.a) : d.a[i].k = k].v

\* d[k] = v: an existing key keeps its place, a new key goes last
SetItem_Default(d, k, v) ==
    IF k \in Keys(d) THEN d ELSE Obj(Append(d.a, Pair(k, v)))
SetItem_WrongKey(d, k, v) ==
    IF "contexts" \in Keys(d)
    THEN Obj([i \in 1..Len(d.a) |->
                IF d.a[i].k = "contexts" THEN Pair("contexts", v) ELSE d.a[i]])
    ELSE Obj(Append(d.a, Pair("contexts", v)))
SetItem(d, k, v) ==
    IF k \in Keys(d)
    THEN Obj([i \in 1..Len(d.a) |-> IF d.a[i].k = k THEN Pair(k, v) ELSE d.a[i]])
    ELSE Obj(Append(d.a, Pair(k, v)))

\* sub in s, for two Python strings
StrContains(s, sub) ==
    \E i \in 1..(Len(s) - Len(sub) + 1) : SubSeq(s, i, i + Len(sub) - 1) = sub

\* whether `x in v` is defined (otherwise TypeError: not iterable)
IsContainer(v) == v.t \in {"object", "array", "string"}

\* "contexts" in v
Contains(v, k) ==
    CASE v.t = "object" -> k \in Keys(v)
      [] v.t = "array" -> \E i \in 1..Len(v.a) : v.a[i] = Str(k)
      [] v.t = "string" -> StrContains(v.s, k)
      [] OTHER -> FALSE

\* len(v), defined for containers
PyLen(v) == IF v.t = "string" THEN Len(v.s) ELSE Len(v.a)

\* whether v can be a dict key (otherwise TypeError: unhashable type)
Hashable(v) == v.t \notin {"object", "array"}

\* what `for item in v` yields: the items of a list, the keys of a dict,
\* the characters of a string
Iterable_Any(v) == TRUE
Iterable(v) == v.t \in {"object", "array", "string"}
Items(v) ==
    CASE v.t = "array" -> v.a
      [] v.t = "object" -> [i \in 1..Len(v.a) |-> Str(v.a[i].k)]
      [] v.t = "string" -> [i \in 1..Len(v.s) |-> Str(SubSeq(v.s, i, i))]
      [] OTHER -> <<>>

(***************************************************************************)
(* context_mapping, lines 6-16.                                            *)
(***************************************************************************)
context_mapping ==
    [k \in {"conflict", "repair", "boundary", "planning", "co_parenting",
            "work/school", "safety", "misunderstanding", "general"} |->
        CASE k = "conflict" -> "conflict_resolution"
          [] k = "repair" -> "repair"
          [] k = "boundary" -> "boundary"
          [] k = "planning" -> "practical"
          [] k = "co_parenting" -> "relationship"
          [] k = "work/school" -> "communication"
          [] k = "safety" -> "emotional"
          [] k = "misunderstanding" -> "clarity"
          [] k = "general" -> "general"]

\* context_mapping.get(key, "emotional"), for a hashable key
IsMappingKey(v) == v.t = "string" /\ v.s \in DOMAIN context_mapping
MappingGet_General(v) ==
    IF IsMappingKey(v) THEN context_mapping[v.s] ELSE "general"
MappingGet(v) ==
    IF IsMappingKey(v) THEN context_mapping[v.s] ELSE "emotional"

(***************************************************************************)
(* The body of the loop, lines 25-32, on one item: the item after the     *)
(* body, or the exception the body raises.                                 *)
(***************************************************************************)
Ok(item) == [ok |-> TRUE, item |-> item, err |-> "none"]
Raise(e) == [ok |-> FALSE, item |-> Null, err |-> e]

\* v[0]: the first item of a list, the first character of a string
First(v) == IF v.t = "string" THEN Str(SubSeq(v.s, 1, 1)) ELSE v.a[1]
LastOf(v) ==
    IF v.t = "string" THEN Str(SubSeq(v.s, Len(v.s), Len(v.s))) ELSE v.a[Len(v.a)]

PrimaryContext_Last(c) == LastOf(c)
PrimaryContext(c) == First(c)

\* the condition of line 25: "true", "false", or the exception it raises
Condition(item) ==
    IF ~IsContainer(item) THEN "TypeError"                    \* `in` on a non-container
    ELSE IF ~Contains(item, "contexts") THEN "false"          \* `and` short-circuits
    ELSE IF item.t # "object" THEN "TypeError"                \* item["contexts"] on a list or str
    ELSE IF ~IsContainer(GetItem(item, "contexts")) THEN "TypeError"   \* len
    ELSE IF PyLen(GetItem(item, "contexts")) > 0 THEN "true" ELSE "false"

ProcessItem_Pop(item) ==
    LET cond == Condition(item) IN
    IF cond \notin {"true", "false"} THEN Raise(cond)
    ELSE IF cond = "true" THEN
        LET contexts == GetItem(item, "contexts") IN
        IF contexts.t # "array" THEN Raise("KeyError")
        ELSE LET primary_context == PrimaryContext(contexts) IN   \* contexts.pop(0)
            IF ~Hashable(primary_context) THEN Raise("TypeError")
            ELSE Ok(SetItem(SetItem(item, "contexts", Arr(Tail(contexts.a))),
                            "category", Str(MappingGet(primary_context))))
    ELSE IF item.t # "object" THEN Raise("TypeError")
    ELSE Ok(SetItem(item, "category", Str("general")))

ProcessItem(item) ==
    LET cond == Condition(item) IN
    IF cond \notin {"true", "false"} THEN Raise(cond)
    ELSE IF cond = "true" THEN
        LET contexts == GetItem(item, "contexts") IN
        IF contexts.t = "object" THEN Raise("KeyError")       \* line 26, [0] of a dict
        ELSE LET primary_context == PrimaryContext(contexts) IN
            IF ~Hashable(primary_context) THEN Raise("TypeError")      \* line 28
            ELSE Ok(SetItem(item, "category", Str(MappingGet(primary_context))))
    ELSE IF item.t # "object" THEN Raise("TypeError")         \* line 32 on a list or str
    ELSE Ok(SetItem(item, "category", Str("general")))

(***************************************************************************)
(* The text of the file.  tree is the JSON syntax it holds: an object of  *)
(* the text may repeat a key.  style is its layout (indentation, escaping *)
(* of non-ASCII characters).  closed is FALSE for a text that stops       *)
(* before its end: the items of tree are then the ones completely there.  *)
(***************************************************************************)
Text(style, tree) == [style |-> style, tree |-> tree, closed |-> TRUE]
Truncated(style, tree) == [style |-> style, tree |-> tree, closed |-> FALSE]
EmptyText == Truncated("none", Null)

\* json.load on an object: a repeated key keeps its first place and its last value
Dedup(pairs) ==
    LET n == Len(pairs)
        firsts == SelectSeq([i \in 1..n |-> i],
                            LAMBDA i : \A j \in 1..(i - 1) : pairs[j].k # pairs[i].k)
        lastOf(k) == CHOOSE i \in 1..n :
                        pairs[i].k = k /\ \A j \in (i + 1)..n : pairs[j].k # k
    IN  [m \in 1..Len(firsts) |-> pairs[lastOf(pairs[firsts[m]].k)]]

RECURSIVE Decode(_)
Decode(tree) ==
    CASE tree.t = "array" -> Arr([i \in 1..Len(tree.a) |-> Decode(tree.a[i])])
      [] tree.t = "object" ->
            LET pairs == Dedup(tree.a)
            IN  Obj([i \in 1..Len(pairs) |-> Pair(pairs[i].k, Decode(pairs[i].v))])
      [] OTHER -> tree

\* json.load, line 21: the value, or JSONDecodeError for a text that is not JSON
Load(text) ==
    IF text.closed THEN Ok(Decode(text.tree)) ELSE Raise("JSONDecodeError")

\* json.dump(..., indent=2, ensure_ascii=False), line 36
Dump(value) == Text("indent2", value)

\* a string the utf-8 encoder of the file refuses: a lone surrogate, which
\* json.load accepts as an escape and ensure_ascii=False emits as it is
LoneSurrogate == "<U+D800>"

RECURSIVE Encodable(_)
Encodable(v) ==
    CASE v.t = "string" -> v.s # LoneSurrogate
      [] v.t = "array" -> \A i \in 1..Len(v.a) : Encodable(v.a[i])
      [] v.t = "object" ->
            \A i \in 1..Len(v.a) : v.a[i].k # LoneSurrogate /\ Encodable(v.a[i].v)
      [] OTHER -> TRUE

\* the texts a write of `value` that raises can leave behind after the open
\* of line 35 has emptied the file, depending on how the encoder cuts the
\* document into writes: nothing, or the opening bracket and the first k
\* items, all of them encodable
Partials(value) ==
    {EmptyText} \cup
    IF value.t \in {"array", "object"}
    THEN {Truncated("indent2", [value EXCEPT !.a = SubSeq(value.a, 1, k)]) :
            k \in {j \in 0..Len(value.a) :
                     Encodable([value EXCEPT !.a = SubSeq(value.a, 1, j)])}}
    ELSE {}

(***************************************************************************)
(* The documents the file can hold when the script is first started.       *)
(***************************************************************************)
\* the labels of the enumerated `contexts`: every key of context_mapping,
\* and a label that is no key
Labels == DOMAIN context_mapping \cup {"unknown_label"}

\* `contexts` sequences of up to MaxCtx labels
CtxSeqs == UNION {[1..n -> Labels] : n \in 0..MaxCtx}
StrList(c) == Arr([i \in 1..Len(c) |-> Str(c[i])])

CtxFields == {<<>>} \cup {<<Pair("contexts", StrList(c))>> : c \in CtxSeqs}
CatFields == {<<>>, <<Pair("category", Str("old_value"))>>,
                    <<Pair("category", Str("general"))>>}
Advice == <<Pair("advice", Str("text"))>>

\* records of the data model: `contexts` absent or a sequence of strings,
\* `category` absent or present, before or after `contexts`
Records ==
    {Obj(Advice \o c \o k) : c \in CtxFields, k \in CatFields}
    \cup {Obj(k \o c \o Advice) : c \in CtxFields, k \in CatFields}

\* the elements of the multi-record documents: a few records of the data
\* model, a record the file cannot encode, a record whose text repeats a
\* key, records whose `contexts` is no sequence of strings, and values that
\* are no records
Elements ==
    { Obj(<<Pair("contexts", StrList(<<"conflict">>))>>),
      Obj(<<Pair("contexts", StrList(<<"unknown_label", "repair">>)),
            Pair("category", Str("old_value"))>>),
      Obj(Advice \o <<Pair("contexts", StrList(<<>>))>>),
      Obj(<<>>),
      Obj(<<Pair("category", Str("old_value"))>> \o Advice),
      Obj(<<Pair("advice", Str(LoneSurrogate)),
            Pair("contexts", StrList(<<"safety">>))>>),
      Obj(<<Pair("contexts", StrList(<<"repair">>)),
            Pair("category", Str("old_value")),
            Pair("contexts", StrList(<<"boundary">>))>>),
      Obj(<<Pair("contexts", Num("5"))>>),
      Obj(<<Pair("contexts", Obj(<<Pair("0", Str("conflict"))>>))>>),
      Obj(<<Pair("contexts", Arr(<<StrList(<<"conflict">>)>>))>>),
      Obj(<<Pair("contexts", Str("safety"))>>),
      Obj(<<Pair("contexts", Arr(<<Null, Str("conflict")>>))>>),
      Num("5"), Null, Str("my_contexts"),
      StrList(<<"contexts">>), StrList(<<>>) }

\* top-level values that are no arrays
NonArrays ==
    { Obj(<<>>), Obj(<<Pair("contexts", StrList(<<"conflict">>))>>),
      Obj(<<Pair("id", Num("5"))>>),
      Str(""), Str("x"), Str("contexts"), Num("5"), Bool("true"), Null }

InitialTexts ==
    {Text("indent2", Arr(<<r>>)) : r \in Records}
    \cup {Text(st, Arr(d)) :
            st \in {"compact", "indent2"},
            d \in UNION {[1..n -> Elements] : n \in 0..MaxRecords}}
    \cup {Text("compact", v) : v \in NonArrays}
    \cup {EmptyText,
          Truncated("indent2", Arr(<<Obj(<<Pair("contexts", StrList(<<"conflict">>))>>)>>))}

InitialFiles ==
    {[exists |-> TRUE, writable |-> w, text |-> t] :
        w \in BOOLEAN, t \in InitialTexts}
    \cup {[exists |-> FALSE, writable |-> TRUE, text |-> EmptyText]}

(***************************************************************************)
(* The process: add_category_field, lines 18-38, started by line 41.       *)
(***************************************************************************)
NoData == Null

Init ==
    /\ file \in InitialFiles
    /\ orig = file
    /\ pc = "start"
    /\ data = NoData
    /\ idx = 0
    /\ err = "none"
    /\ stdout = <<>>
    /\ rfd = "none"
    /\ wfd = "none"
    /\ trace = <<>>
    /\ run = 1
    /\ last = "none"

\* an uncaught exception ends the process
Fail(e) == pc' = "failed" /\ err' = e

\* line 20: open(..., 'r')
OpenRead_Truncating ==
    /\ pc = "start"
    /\ IF file.exists
       THEN /\ rfd' = "open"
            /\ pc' = "load"
            /\ trace' = Append(trace, "open_r")
            /\ err' = err
            /\ file' = [file EXCEPT !.text = EmptyText]
       ELSE /\ Fail("FileNotFoundError")
            /\ UNCHANGED <<rfd, trace, file>>
    /\ UNCHANGED <<data, idx, stdout, wfd, run, orig, last>>

OpenRead ==
    /\ pc = "start"
    /\ IF file.exists
       THEN /\ rfd' = "open"
            /\ pc' = "load"
            /\ trace' = Append(trace, "open_r")
            /\ err' = err
       ELSE /\ Fail("FileNotFoundError")
            /\ UNCHANGED <<rfd, trace>>
    /\ UNCHANGED <<file, data, idx, stdout, wfd, run, orig, last>>

\* line 21: json.load(f) reads the whole file and parses it; the `with`
\* closes the handle whether or not the parse raised
LoadData ==
    /\ pc = "load"
    /\ rfd' = "closed"
    /\ LET r == Load(file.text) IN
       IF r.ok
       THEN /\ data' = r.item
            /\ pc' = "iter"
            /\ trace' = Append(trace, "parse")
            /\ err' = err
       ELSE /\ Fail(r.err)
            /\ UNCHANGED <<data, trace>>
    /\ UNCHANGED <<file, idx, stdout, wfd, run, orig, last>>

\* line 24: `for item in data` asks data for an iterator
ForIter ==
    /\ pc = "iter"
    /\ IF Iterable(data)
       THEN pc' = "loop" /\ idx' = 1 /\ err' = err
       ELSE Fail("TypeError") /\ idx' = idx
    /\ UNCHANGED <<file, data, stdout, rfd, wfd, trace, run, orig, last>>

\* lines 24-32: the iterator yields the next item and the body runs on it.
\* The items of a list are the dicts themselves, so the body's assignment
\* shows in data.
ForBody_Copy ==
    /\ pc = "loop"
    /\ idx <= Len(Items(data))
    /\ LET r == ProcessItem(Items(data)[idx]) IN
       IF r.ok
       THEN /\ idx' = idx + 1
            /\ trace' = Append(trace, "annotate")
            /\ UNCHANGED <<pc, err>>
       ELSE /\ Fail(r.err)
            /\ UNCHANGED <<idx, trace>>
    /\ UNCHANGED <<file, data, stdout, rfd, wfd, run, orig, last>>

ForBody ==
    /\ pc = "loop"
    /\ idx <= Len(Items(data))
    /\ LET r == ProcessItem(Items(data)[idx]) IN
       IF r.ok
       THEN /\ data' = [data EXCEPT !.a[idx] = r.item]
            /\ idx' = idx + 1
            /\ trace' = Append(trace, "annotate")
            /\ UNCHANGED <<pc, err>>
       ELSE /\ Fail(r.err)
            /\ UNCHANGED <<data, idx, trace>>
    /\ UNCHANGED <<file, stdout, rfd, wfd, run, orig, last>>

\* line 24: the iterator is exhausted
ForEnd_Early ==
    /\ pc = "loop"
    /\ idx >= Len(Items(data))
    /\ pc' = "open_w"
    /\ UNCHANGED <<file, data, idx, err, stdout, rfd, wfd, trace, run, orig, last>>

ForEnd ==
    /\ pc = "loop"
    /\ idx > Len(Items(data))
    /\ pc' = "open_w"
    /\ UNCHANGED <<file, data, idx, err, stdout, rfd, wfd, trace, run, orig, last>>

\* line 35: open(..., 'w') empties the file
OpenWrite_Print ==
    /\ pc = "open_w"
    /\ IF file.writable
       THEN /\ file' = [file EXCEPT !.text = EmptyText]
            /\ wfd' = "open"
            /\ pc' = "dump"
            /\ trace' = Append(trace, "open_w")
            /\ err' = err
            /\ stdout' = Append(stdout, "Added category field to all entries")
       ELSE /\ Fail("PermissionError")
            /\ UNCHANGED <<file, wfd, trace, stdout>>
    /\ UNCHANGED <<data, idx, rfd, run, orig, last>>

OpenWrite ==
    /\ pc = "open_w"
    /\ IF file.writable
       THEN /\ file' = [file EXCEPT !.text = EmptyText]
            /\ wfd' = "open"
            /\ pc' = "dump"
            /\ trace' = Append(trace, "open_w")
            /\ err' = err
       ELSE /\ Fail("PermissionError")
            /\ UNCHANGED <<file, wfd, trace>>
    /\ UNCHANGED <<data, idx, stdout, rfd, run, orig, last>>

\* line 36: json.dump writes the document; a string the file cannot encode
\* raises in the middle of it.  The `with` closes the handle either way.
DumpData ==
    /\ pc = "dump"
    /\ wfd' = "closed"
    /\ IF Encodable(data)
       THEN /\ file' = [file EXCEPT !.text = Dump(data)]
            /\ pc' = "print"
            /\ trace' = Append(trace, "write")
            /\ err' = err
       ELSE /\ \E t \in Partials(data) : file' = [file EXCEPT !.text = t]
            /\ Fail("UnicodeEncodeError")
            /\ trace' = trace
    /\ UNCHANGED <<data, idx, stdout, rfd, run, orig, last>>

\* line 38 (the line without its leading check mark)
SuccessLine == "Added category field to all entries"
PrintSuccess ==
    /\ pc = "print"
    /\ stdout' = Append(stdout, SuccessLine)
    /\ trace' = Append(trace, "print")
    /\ pc' = "done"
    /\ UNCHANGED <<file, data, idx, err, rfd, wfd, run, orig, last>>

\* lines 40-41: the script is started again, on the file as the last
\* process left it
Rerun ==
    /\ pc \in {"done", "failed"}
    /\ run < MaxRuns
    /\ run' = run + 1
    /\ last' = pc
    /\ orig' = file
    /\ pc' = "start"
    /\ data' = NoData
    /\ idx' = 0
    /\ err' = "none"
    /\ stdout' = <<>>
    /\ rfd' = "none"
    /\ wfd' = "none"
    /\ trace' = <<>>
    /\ file' = file

Next ==
    \/ OpenRead
    \/ LoadData
    \/ ForIter
    \/ ForBody
    \/ ForEnd
    \/ OpenWrite
    \/ DumpData
    \/ PrintSuccess
    \/ Rerun

Spec == Init /\ [][Next]_vars

(***************************************************************************)
(* What the properties speak of.                                           *)
(***************************************************************************)
Terminated == pc \in {"done", "failed"}

\* the document the process read, and the document the file holds now
InputDoc == Decode(orig.text.tree)
OutputDoc == Decode(file.text.tree)
RecordsOf(doc) == IF doc.t = "array" THEN doc.a ELSE <<>>
InputRecords == RecordsOf(InputDoc)
OutputRecords == RecordsOf(OutputDoc)

IsRecord(v) == v.t = "object"
HasField(r, k) == IsRecord(r) /\ k \in Keys(r)
\* `contexts` is a non-empty sequence
NonEmptyContexts(r) ==
    /\ HasField(r, "contexts")
    /\ GetItem(r, "contexts").t = "array"
    /\ Len(GetItem(r, "contexts").a) > 0
\* `contexts` is absent or an empty sequence
NoContexts(r) ==
    /\ IsRecord(r)
    /\ HasField(r, "contexts") =>
          GetItem(r, "contexts").t = "array" /\ Len(GetItem(r, "contexts").a) = 0
CategoryIs(r, c) == HasField(r, "category") /\ GetItem(r, "category") = Str(c)

\* the input document with the body of the loop applied to every item
AnnotatedInput ==
    IF InputDoc.t = "array"
    THEN Arr([i \in 1..Len(InputRecords) |-> ProcessItem(InputRecords[i]).item])
    ELSE InputDoc

(***************************************************************************)
(* C1: after a successful run, every input record whose `contexts` is a   *)
(* non-empty sequence with a key of context_mapping first has, in the      *)
(* output, the category the mapping gives that first element, whatever    *)
(* the later elements and the old category are.                            *)
(***************************************************************************)
C1_MappedCategory ==
    pc = "done" =>
        \A i \in 1..Len(InputRecords) :
            LET r == InputRecords[i] IN
            (NonEmptyContexts(r) /\ IsMappingKey(GetItem(r, "contexts").a[1])) =>
                /\ i <= Len(OutputRecords)
                /\ CategoryIs(OutputRecords[i],
                              context_mapping[GetItem(r, "contexts").a[1].s])

C1_Witness ==
    /\ pc = "done"
    /\ \E i \in 1..Len(InputRecords) :
          /\ NonEmptyContexts(InputRecords[i])
          /\ GetItem(InputRecords[i], "contexts") = StrList(<<"conflict", "repair">>)
          /\ CategoryIs(InputRecords[i], "old_value")
          /\ CategoryIs(OutputRecords[i], "conflict_resolution")

(***************************************************************************)
(* C2: after a successful run, every input record whose `contexts` is a   *)
(* non-empty sequence whose first element is no key of context_mapping    *)
(* has the category "emotional", also when a later element is a key.       *)
(***************************************************************************)
C2_FallbackEmotional ==
    pc = "done" =>
        \A i \in 1..Len(InputRecords) :
            LET r == InputRecords[i] IN
            (NonEmptyContexts(r) /\ ~IsMappingKey(GetItem(r, "contexts").a[1])) =>
                /\ i <= Len(OutputRecords)
                /\ CategoryIs(OutputRecords[i], "emotional")

C2_Witness ==
    /\ pc = "done"
    /\ \E i \in 1..Len(InputRecords) :
          /\ NonEmptyContexts(InputRecords[i])
          /\ GetItem(InputRecords[i], "contexts") = StrList(<<"unknown_label", "repair">>)
          /\ CategoryIs(InputRecords[i], "old_value")
          /\ CategoryIs(OutputRecords[i], "emotional")

(***************************************************************************)
(* C3: after a successful run, every input record with no `contexts` or   *)
(* with an empty `contexts` has the category "general", whatever category *)
(* it had.                                                                 *)
(***************************************************************************)
C3_DefaultGeneral ==
    pc = "done" =>
        \A i \in 1..Len(InputRecords) :
            NoContexts(InputRecords[i]) =>
                /\ i <= Len(OutputRecords)
                /\ CategoryIs(OutputRecords[i], "general")

C3_Witness ==
    /\ pc = "done"
    /\ \E i, j \in 1..Len(InputRecords) :
          /\ ~HasField(InputRecords[i], "contexts")
          /\ CategoryIs(InputRecords[i], "old_value")
          /\ CategoryIs(OutputRecords[i], "general")
          /\ HasField(InputRecords[j], "contexts")
          /\ NoContexts(InputRecords[j])
          /\ CategoryIs(OutputRecords[j], "general")

(***************************************************************************)
(* C4: after a successful run the output has as many records as the       *)
(* input, and the record at every index is the annotation of the input    *)
(* record at that index.                                                   *)
(***************************************************************************)
C4_CountAndOrder ==
    pc = "done" =>
        /\ Len(OutputRecords) = Len(InputRecords)
        /\ \A i \in 1..Len(InputRecords) :
              /\ ProcessItem(InputRecords[i]).ok
              /\ OutputRecords[i] = ProcessItem(InputRecords[i]).item

C4_Witness ==
    /\ pc = "done"
    /\ Len(InputRecords) = MaxRecords
    /\ Len(OutputRecords) = MaxRecords
    /\ \A i, j \in 1..Len(OutputRecords) :
          i # j => OutputRecords[i] # OutputRecords[j]

(***************************************************************************)
(* C5: after a successful run every record has the fields it had, but for *)
(* `category`, each with the value it had.                                 *)
(***************************************************************************)
OtherFields(r) == Keys(r) \ {"category"}

C5_OtherFieldsUnchanged ==
    pc = "done" =>
        /\ Len(OutputRecords) = Len(InputRecords)
        /\ \A i \in 1..Len(InputRecords) :
              /\ IsRecord(OutputRecords[i])
              /\ OtherFields(OutputRecords[i]) = OtherFields(InputRecords[i])
              /\ \A k \in OtherFields(InputRecords[i]) :
                    GetItem(OutputRecords[i], k) = GetItem(InputRecords[i], k)

C5_Witness ==
    /\ pc = "done"
    /\ \E i \in 1..Len(InputRecords) :
          /\ OtherFields(InputRecords[i]) = {"advice", "contexts"}
          /\ CategoryIs(InputRecords[i], "old_value")
          /\ ~CategoryIs(OutputRecords[i], "old_value")
          /\ GetItem(OutputRecords[i], "contexts") = GetItem(InputRecords[i], "contexts")

(***************************************************************************)
(* C6: when the script is run again after a successful run, the second    *)
(* run succeeds too and leaves the file with the content the first run    *)
(* gave it.                                                                *)
(***************************************************************************)
C6_Idempotent ==
    (last = "done" /\ Terminated) =>
        /\ pc = "done"
        /\ file.text = orig.text

C6_Witness ==
    /\ last = "done"
    /\ pc = "done"
    /\ file.text = orig.text
    /\ \E i \in 1..Len(OutputRecords) :
          /\ NonEmptyContexts(OutputRecords[i])
          /\ Len(GetItem(OutputRecords[i], "contexts").a) = MaxCtx
          /\ CategoryIs(OutputRecords[i], "conflict_resolution")

(***************************************************************************)
(* C7, as claimed: every terminated run leaves the file holding either    *)
(* the whole annotated document or exactly what it held before the run.    *)
(***************************************************************************)
C7_AllOrNothing ==
    Terminated =>
        \/ file.text = Dump(AnnotatedInput)
        \/ file.text = orig.text

(***************************************************************************)
(* C7, amended: a terminated run leaves the file as it was when it ended  *)
(* before the file was opened for writing; holding the whole annotated    *)
(* document when the write completed; and holding a text cut short (none  *)
(* of it, or its beginning, never its end) when the write raised.          *)
(***************************************************************************)
C7_WriteOutcomes ==
    Terminated =>
        /\ wfd = "none" => (pc = "failed" /\ file = orig)
        /\ (wfd # "none" /\ err = "none") =>
              (pc = "done" /\ file.text = Dump(AnnotatedInput))
        /\ (wfd # "none" /\ err # "none") =>
              /\ pc = "failed"
              /\ err = "UnicodeEncodeError"
              /\ file.text \in Partials(AnnotatedInput)
              /\ ~file.text.closed
              /\ file.text # orig.text
        /\ file.exists = orig.exists /\ file.writable = orig.writable

C7_Witness ==
    /\ pc = "failed"
    /\ err = "UnicodeEncodeError"
    /\ orig.text.closed
    /\ file.text # EmptyText
    /\ ~file.text.closed
    /\ Len(OutputRecords) = 1
    /\ Len(InputRecords) = 2

(***************************************************************************)
(* C8, as claimed: whenever the parsed top-level value is no array, or    *)
(* some element of the array is no object, the run ends in a TypeError,   *)
(* the file is never opened for writing, its content is unchanged and the *)
(* success line is not printed.                                            *)
(***************************************************************************)
Parsed == orig.exists /\ orig.text.closed
NotAnArray == Parsed /\ InputDoc.t # "array"
SomeNonRecord ==
    /\ Parsed
    /\ InputDoc.t = "array"
    /\ \E i \in 1..Len(InputRecords) : ~IsRecord(InputRecords[i])

FatalBeforeWrite(errors) ==
    /\ pc = "failed"
    /\ err \in errors
    /\ wfd = "none"
    /\ ~(\E i \in 1..Len(trace) : trace[i] = "open_w")
    /\ file = orig
    /\ stdout = <<>>

C8_SchemaViolationFatal ==
    (Terminated /\ (NotAnArray \/ SomeNonRecord)) => FatalBeforeWrite({"TypeError"})

(***************************************************************************)
(* C8, amended: the run ends in a TypeError, with the file never opened   *)
(* for writing, unchanged, and no success line, whenever the top-level    *)
(* value is a number, a boolean, null, a non-empty string or a non-empty  *)
(* object, or is an array with an element that is no object and no record *)
(* before that element has a non-empty object as its `contexts` (the loop *)
(* then ends earlier, in a KeyError, with the same effects).  An empty    *)
(* object and an empty string are iterated as empty: the run succeeds,    *)
(* writes the value back and prints the success line.                      *)
(***************************************************************************)
EmptyNonArray == NotAnArray /\ InputDoc.t \in {"object", "string"} /\ PyLen(InputDoc) = 0
ObjectContextsBefore(n) ==
    \E i \in 1..n :
        /\ HasField(InputRecords[i], "contexts")
        /\ GetItem(InputRecords[i], "contexts").t = "object"
        /\ Len(GetItem(InputRecords[i], "contexts").a) > 0
FirstNonRecord == CHOOSE i \in 1..Len(InputRecords) :
                     /\ ~IsRecord(InputRecords[i])
                     /\ \A j \in 1..(i - 1) : IsRecord(InputRecords[j])

C8_SchemaViolationOutcome ==
    Terminated =>
        /\ (NotAnArray /\ ~EmptyNonArray) => FatalBeforeWrite({"TypeError"})
        /\ (SomeNonRecord /\ ~ObjectContextsBefore(FirstNonRecord)) =>
              FatalBeforeWrite({"TypeError"})
        /\ (SomeNonRecord /\ ObjectContextsBefore(FirstNonRecord)) =>
              FatalBeforeWrite({"TypeError", "KeyError"})
        /\ (EmptyNonArray /\ orig.writable) =>
              /\ pc = "done"
              /\ OutputDoc = InputDoc
              /\ stdout = <<SuccessLine>>

C8_Witness ==
    /\ pc = "failed"
    /\ err = "TypeError"
    /\ SomeNonRecord
    /\ FirstNonRecord = 2
    /\ IsRecord(InputRecords[1])
    /\ data.a[1] # InputRecords[1]
    /\ file = orig

(***************************************************************************)
(* C9: in every run the success line is printed at most once, only after  *)
(* the write of the whole document has completed, never in a run that     *)
(* ends in an exception, and exactly once in a run that completes the     *)
(* write.                                                                  *)
(***************************************************************************)
Wrote == \E i \in 1..Len(trace) : trace[i] = "write"

C9_SuccessLineOnce ==
    /\ Len(stdout) <= 1
    /\ stdout # <<>> =>
          /\ stdout = <<SuccessLine>>
          /\ Wrote
          /\ wfd = "closed"
          /\ file.text = Dump(AnnotatedInput)
          /\ pc = "done"
    /\ pc = "failed" => stdout = <<>>
    /\ (Terminated /\ Wrote) => (pc = "done" /\ Len(stdout) = 1)
    /\ (Wrote /\ ~Terminated) => (pc = "print" /\ err = "none")

C9_Witness ==
    /\ pc = "done"
    /\ stdout = <<SuccessLine>>
    /\ Len(OutputRecords) = MaxRecords

(***************************************************************************)
(* C10: the steps of a run come in the order open-for-read, parse,        *)
(* annotate each record, open-for-write, write, print; the file is not    *)
(* opened for writing, nor changed, before it has been read, parsed and   *)
(* closed and every record has been annotated.                             *)
(***************************************************************************)
StepOrder(n) ==
    <<"open_r", "parse">> \o [i \in 1..n |-> "annotate"]
        \o <<"open_w", "write", "print">>
IsPrefix(p, q) == Len(p) <= Len(q) /\ \A i \in 1..Len(p) : p[i] = q[i]
Loaded == \E i \in 1..Len(trace) : trace[i] = "parse"

C10_StepOrder ==
    /\ IsPrefix(trace, StepOrder(IF Loaded THEN Len(Items(data)) ELSE 0))
    /\ wfd # "none" =>
          /\ rfd = "closed"
          /\ Loaded
          /\ data = AnnotatedInput
    /\ wfd = "none" => file = orig
    /\ rfd = "open" => wfd = "none"

C10_Witness ==
    /\ pc = "done"
    /\ trace = StepOrder(MaxRecords)
    /\ data # InputDoc

====
